---- MODULE Spec2Model ----
(***************************************************************************)
(* Observation lifecycle of the Teacher Evaluation System: the route       *)
(* handlers that create, edit, delete and transition one observation,     *)
(* the rate limiter they call and the audit rows they write.              *)
(*                                                                         *)
(* Encoding conventions                                                    *)
(*   - a table is the set of its rows; findUnique returns a set of at      *)
(*     most one row;                                                       *)
(*   - a nullable or optional NUMBER is a set of at most one integer:      *)
(*     {} is null / undefined, {n} is n;                                   *)
(*   - nullable strings use the string NULL;                               *)
(*   - time is kept relative to the current instant: Date.now() is 0 and   *)
(*     a stored resetTime is the distance from now to it (negative once    *)
(*     it has passed).  Elapse shifts the stored times when time passes.   *)
(***************************************************************************)
EXTENDS Integers, Sequences, FiniteSets, TLC

VARIABLES
    observations,   \* table Observation (rows of the one observation id followed)
    itemScores,     \* table ObservationItemScore of that observation, in insertion order
    attachments,    \* table Attachment: the files uploaded for the observation
    idAllocated,    \* the observation id has been handed out by observation.create
    store,          \* rateLimit.ts: const store, key -> {count, resetTime} (or no entry)
    last,           \* the most recently completed request and its response
    auditAppended,  \* rows that request appended to table AuditLog
    pc,             \* per request slot: 0 when free, else the storage call it makes next
    req,            \* per request slot: the request, with what its reads returned
    scoring,        \* the most recent call of a scoring function: its input and its result
    limited         \* the most recent direct call of rateLimit, with the window it fell in

dbVars == <<observations, itemScores, attachments, idAllocated>>
procVars == <<pc, req>>
vars == <<observations, itemScores, attachments, idAllocated, store, last, auditAppended,
          pc, req, scoring, limited>>

----------------------------------------------------------------------------
(* Values *)

NULL == "null"
ANON == "anonymous"          \* getServerSession(...) returned no user

Users == {"u1", "u2", "u3"}
Sessions == Users \cup {ANON}

role(u) ==
    CASE u = "u1" -> "OBSERVER"
      [] u = "u2" -> "REVIEWER"
      [] u = "u3" -> "ADMIN"
      [] OTHER -> "NONE"

ObsId == "o1"
Items == <<"i1">>

\* The rubric item the observation is scored on, as an administrator created it:
\* its inclusive rating range.
RubricItems == [i1 |-> [scaleMin |-> 0, scaleMax |-> 1]]

\* body.itemScores[...].rating: the integers a request sends, inside and outside the range
MaxRating == 2
Ratings == 0..MaxRating
NoNumber == {}
OptRatings == {NoNumber} \cup {{r} : r \in Ratings}

TheOne(S) == CHOOSE x \in S : TRUE
Max(a, b) == IF a >= b THEN a ELSE b
Min(a, b) == IF a <= b THEN a ELSE b

Statuses == {"DRAFT", "SUBMITTED", "REVIEWED", "FINALIZED"}
Actions == {"SUBMIT", "REVIEW", "FINALIZE", "RETURN_TO_DRAFT"}

----------------------------------------------------------------------------
(* lib/rateLimit.ts *)

WindowMs == 900000
StatusRateLimit == 20
CreateRateLimit == 10

NoHeaders == [forwarded |-> "", realIp |-> ""]

getClientIdentifier(headers) ==
    IF headers.forwarded # "" THEN headers.forwarded
    ELSE IF headers.realIp # "" THEN headers.realIp
    ELSE "unknown"

ClientKeys == {"unknown"}
NoEntry == [count |-> 0, resetTime |-> -1]     \* store[key] is undefined

\* Time passes by dt ms: every stored resetTime moves dt closer to (or further
\* behind) now.  Only the sign of a passed resetTime is ever read, so it is kept at -1.
Elapse(st, dt) ==
    [k \in DOMAIN st |->
        IF st[k] = NoEntry THEN NoEntry
        ELSE [count |-> st[k].count, resetTime |-> Max(st[k].resetTime - dt, -1)]]

\* Seeded fault: the limit is tested with > and lets one more call through.
Mut_rateLimit_OneMore(st, identifier, maxRequests, windowMs) ==
    LET now == 0
        key == identifier
    IN  IF st[key] = NoEntry \/ now > st[key].resetTime
        THEN [store |-> [st EXCEPT ![key] = [count |-> 1, resetTime |-> now + windowMs]],
              success |-> TRUE, remaining |-> maxRequests - 1,
              resetTime |-> now + windowMs]
        ELSE IF st[key].count > maxRequests
        THEN [store |-> st,
              success |-> FALSE, remaining |-> 0, resetTime |-> st[key].resetTime]
        ELSE [store |-> [st EXCEPT ![key].count = @ + 1],
              success |-> TRUE, remaining |-> maxRequests - (st[key].count + 1),
              resetTime |-> st[key].resetTime]

\* Seeded fault: a call that finds the counter full starts a new window.
Mut_rateLimit_RestartsWhenFull(st, identifier, maxRequests, windowMs) ==
    LET now == 0
        key == identifier
    IN  IF st[key] = NoEntry \/ now > st[key].resetTime \/ st[key].count >= maxRequests
        THEN [store |-> [st EXCEPT ![key] = [count |-> 1, resetTime |-> now + windowMs]],
              success |-> TRUE, remaining |-> maxRequests - 1,
              resetTime |-> now + windowMs]
        ELSE [store |-> [st EXCEPT ![key].count = @ + 1],
              success |-> TRUE, remaining |-> maxRequests - (st[key].count + 1),
              resetTime |-> st[key].resetTime]

\* Returns the result object together with the store after the call.
rateLimit(st, identifier, maxRequests, windowMs) ==
    LET now == 0
        key == identifier
    IN  IF st[key] = NoEntry \/ now > st[key].resetTime
        THEN [store |-> [st EXCEPT ![key] = [count |-> 1, resetTime |-> now + windowMs]],
              success |-> TRUE, remaining |-> maxRequests - 1,
              resetTime |-> now + windowMs]
        ELSE IF st[key].count >= maxRequests
        THEN [store |-> st,
              success |-> FALSE, remaining |-> 0, resetTime |-> st[key].resetTime]
        ELSE [store |-> [st EXCEPT ![key].count = @ + 1],
              success |-> TRUE, remaining |-> maxRequests - (st[key].count + 1),
              resetTime |-> st[key].resetTime]

----------------------------------------------------------------------------
(* Responses and audit rows *)

Resp(code, error) == [code |-> code, error |-> error, thrown |-> ""]
Proceed == Resp(0, "")       \* no early return was taken

\* The catch block: console.error(..., error) and a 500.  `thrown` is the storage
\* call whose exception was caught.
InternalServerError(call) ==
    [code |-> 500, error |-> "Internal server error", thrown |-> call]

Completed(r, resp) ==
    [op |-> r.op, session |-> r.session, action |-> r.action,
     reviewerComments |-> r.reviewerComments,
     code |-> resp.code, error |-> resp.error, thrown |-> resp.thrown]

AuditRow(objectId, action, userId, diff) ==
    [objectType |-> "Observation", objectId |-> objectId, action |-> action,
     userId |-> userId, diff |-> diff]

----------------------------------------------------------------------------
(* Storage calls *)

findUnique(table, id) == {o \in table : o.id = id}

\* prisma.observation.update({where: {id}, data}): fields absent from data keep
\* their value.  The caller checks that the row exists (update throws if not).
update(table, id, data) ==
    {IF o.id = id
        THEN [f \in DOMAIN o |-> IF f \in DOMAIN data THEN data[f] ELSE o[f]]
        ELSE o : o \in table}

\* Object.entries(itemScores).map(...): one row per key of the body, in key order.
RECURSIVE itemScoreDataFrom(_, _)
itemScoreDataFrom(body, i) ==
    IF i > Len(Items) THEN <<>>
    ELSE LET rest == itemScoreDataFrom(body, i + 1)
         IN  IF body[Items[i]].given
             THEN <<[rubricItemId |-> Items[i], rating |-> body[Items[i]].rating]>> \o rest
             ELSE rest

itemScoreData(body) == itemScoreDataFrom(body, 1)

ItemSet == {Items[i] : i \in 1..Len(Items)}
ScoreBodies ==
    [ItemSet -> {[given |-> FALSE, rating |-> NoNumber]}
                \cup {[given |-> TRUE, rating |-> r] : r \in OptRatings}]

----------------------------------------------------------------------------
(* PUT /api/observations/[id]/status   (unnamed/part_007) *)

CommentInputs == {"", " good "}    \* body.reviewerComments; "" stands for a missing one

\* String.prototype.trim on the comments a request sends
trim(str) == IF str = " good " THEN "good" ELSE str
ActionInputs == Actions \cup {"PUBLISH"}

\* reviewerComments ? String(reviewerComments).trim() : null
sanitizedReviewerComments(reviewerComments) ==
    IF reviewerComments # "" THEN trim(reviewerComments) ELSE NULL

\* Seeded fault: the role list also lets an observer through.
Mut_canReview_Observer(session) == role(session) \in {"OBSERVER", "REVIEWER", "ADMIN"}

canReview(session) == role(session) \in {"REVIEWER", "ADMIN"}

\* Seeded fault: the ownership test is left out, any signed-in user passes.
Mut_isObserverOrAdmin_Anyone(observation, session) == session # ANON

isObserverOrAdmin(observation, session) ==
    ~(observation.observerId # session /\ role(session) # "ADMIN")

\* Seeded fault: a rating of 0 is taken for "not rated" (a truthiness test).
Mut_ratedItems_Truthy(scores) ==
    Cardinality({i \in 1..Len(scores) : scores[i].rating \notin {NoNumber, {0}}})

\* observation.itemScores.filter(score => score.rating !== null).length
ratedItems(scores) ==
    Cardinality({i \in 1..Len(scores) : scores[i].rating # NoNumber})

\* Seeded fault: RETURN_TO_DRAFT only refuses an observation that is a draft already.
Mut_StatusSwitch_ReturnFromAny(observation, session, action) ==
    CASE action = "SUBMIT" ->
            IF observation.observerId # session /\ role(session) # "ADMIN"
            THEN Resp(403, "Forbidden")
            ELSE IF observation.status # "DRAFT"
            THEN Resp(400, "Only draft observations can be submitted")
            ELSE IF \A i \in 1..Len(observation.itemScores) :
                        observation.itemScores[i].rating = NoNumber
            THEN Resp(400, "At least one rubric item must be rated before submission")
            ELSE Proceed
      [] action = "REVIEW" ->
            IF role(session) \notin {"REVIEWER", "ADMIN"} THEN Resp(403, "Forbidden")
            ELSE IF observation.status # "SUBMITTED"
            THEN Resp(400, "Only submitted observations can be reviewed")
            ELSE Proceed
      [] action = "FINALIZE" ->
            IF role(session) \notin {"REVIEWER", "ADMIN"} THEN Resp(403, "Forbidden")
            ELSE IF observation.status # "REVIEWED"
            THEN Resp(400, "Only reviewed observations can be finalized")
            ELSE Proceed
      [] action = "RETURN_TO_DRAFT" ->
            IF role(session) \notin {"REVIEWER", "ADMIN"} THEN Resp(403, "Forbidden")
            ELSE IF observation.status = "DRAFT"
            THEN Resp(400, "Only submitted or reviewed observations can be returned to draft")
            ELSE Proceed
      [] OTHER -> Resp(400, "Invalid action")

\* Seeded fault: REVIEW, FINALIZE and RETURN_TO_DRAFT test the status before the role.
Mut_StatusSwitch_StateFirst(observation, session, action) ==
    CASE action = "SUBMIT" ->
            IF observation.observerId # session /\ role(session) # "ADMIN"
            THEN Resp(403, "Forbidden")
            ELSE IF observation.status # "DRAFT"
            THEN Resp(400, "Only draft observations can be submitted")
            ELSE IF \A i \in 1..Len(observation.itemScores) :
                        observation.itemScores[i].rating = NoNumber
            THEN Resp(400, "At least one rubric item must be rated before submission")
            ELSE Proceed
      [] action = "REVIEW" ->
            IF observation.status # "SUBMITTED"
            THEN Resp(400, "Only submitted observations can be reviewed")
            ELSE IF role(session) \notin {"REVIEWER", "ADMIN"} THEN Resp(403, "Forbidden")
            ELSE Proceed
      [] action = "FINALIZE" ->
            IF observation.status # "REVIEWED"
            THEN Resp(400, "Only reviewed observations can be finalized")
            ELSE IF role(session) \notin {"REVIEWER", "ADMIN"} THEN Resp(403, "Forbidden")
            ELSE Proceed
      [] action = "RETURN_TO_DRAFT" ->
            IF observation.status \notin {"SUBMITTED", "REVIEWED"}
            THEN Resp(400, "Only submitted or reviewed observations can be returned to draft")
            ELSE IF role(session) \notin {"REVIEWER", "ADMIN"} THEN Resp(403, "Forbidden")
            ELSE Proceed
      [] OTHER -> Resp(400, "Invalid action")

\* Seeded fault: SUBMIT lets an observation through that is submitted already.
Mut_StatusSwitch_Resubmit(observation, session, action) ==
    CASE action = "SUBMIT" ->
            IF observation.observerId # session /\ role(session) # "ADMIN"
            THEN Resp(403, "Forbidden")
            ELSE IF observation.status \notin {"DRAFT", "SUBMITTED"}
            THEN Resp(400, "Only draft observations can be submitted")
            ELSE IF \A i \in 1..Len(observation.itemScores) :
                        observation.itemScores[i].rating = NoNumber
            THEN Resp(400, "At least one rubric item must be rated before submission")
            ELSE Proceed
      [] action = "REVIEW" ->
            IF role(session) \notin {"REVIEWER", "ADMIN"} THEN Resp(403, "Forbidden")
            ELSE IF observation.status # "SUBMITTED"
            THEN Resp(400, "Only submitted observations can be reviewed")
            ELSE Proceed
      [] action = "FINALIZE" ->
            IF role(session) \notin {"REVIEWER", "ADMIN"} THEN Resp(403, "Forbidden")
            ELSE IF observation.status # "REVIEWED"
            THEN Resp(400, "Only reviewed observations can be finalized")
            ELSE Proceed
      [] action = "RETURN_TO_DRAFT" ->
            IF role(session) \notin {"REVIEWER", "ADMIN"} THEN Resp(403, "Forbidden")
            ELSE IF observation.status \notin {"SUBMITTED", "REVIEWED"}
            THEN Resp(400, "Only submitted or reviewed observations can be returned to draft")
            ELSE Proceed
      [] OTHER -> Resp(400, "Invalid action")

\* The early returns of the switch, in the order the code takes them.
StatusSwitch(observation, session, action) ==
    CASE action = "SUBMIT" ->
            IF ~isObserverOrAdmin(observation, session) THEN Resp(403, "Forbidden")
            ELSE IF observation.status # "DRAFT"
            THEN Resp(400, "Only draft observations can be submitted")
            ELSE IF ratedItems(observation.itemScores) = 0
            THEN Resp(400, "At least one rubric item must be rated before submission")
            ELSE Proceed
      [] action = "REVIEW" ->
            IF ~canReview(session) THEN Resp(403, "Forbidden")
            ELSE IF observation.status # "SUBMITTED"
            THEN Resp(400, "Only submitted observations can be reviewed")
            ELSE Proceed
      [] action = "FINALIZE" ->
            IF ~canReview(session) THEN Resp(403, "Forbidden")
            ELSE IF observation.status # "REVIEWED"
            THEN Resp(400, "Only reviewed observations can be finalized")
            ELSE Proceed
      [] action = "RETURN_TO_DRAFT" ->
            IF ~canReview(session) THEN Resp(403, "Forbidden")
            ELSE IF observation.status \notin {"SUBMITTED", "REVIEWED"}
            THEN Resp(400, "Only submitted or reviewed observations can be returned to draft")
            ELSE Proceed
      [] OTHER -> Resp(400, "Invalid action")

\* Seeded fault: RETURN_TO_DRAFT resets the status and leaves the review in place.
Mut_StatusData_KeepsReview(session, action, reviewerComments) ==
    CASE action = "SUBMIT" -> [status |-> "SUBMITTED"]
      [] action = "REVIEW" ->
            [status |-> "REVIEWED", reviewerId |-> session, reviewedAt |-> "date",
             reviewerComments |->
                IF reviewerComments # "" THEN trim(reviewerComments) ELSE NULL]
      [] action = "FINALIZE" -> [status |-> "FINALIZED", finalizedAt |-> "date"]
      [] action = "RETURN_TO_DRAFT" -> [status |-> "DRAFT"]

\* The data of the prisma.observation.update call of each case.
\* Seeded fault: FINALIZE writes the status only.
Mut_StatusData_FinalizeNoDate(session, action, reviewerComments) ==
    CASE action = "SUBMIT" -> [status |-> "SUBMITTED"]
      [] action = "REVIEW" ->
            [status |-> "REVIEWED", reviewerId |-> session, reviewedAt |-> "date",
             reviewerComments |-> sanitizedReviewerComments(reviewerComments)]
      [] action = "FINALIZE" -> [status |-> "FINALIZED"]
      [] action = "RETURN_TO_DRAFT" ->
            [status |-> "DRAFT", reviewerId |-> NULL, reviewedAt |-> NULL,
             reviewerComments |-> NULL]

StatusData(session, action, reviewerComments) ==
    CASE action = "SUBMIT" -> [status |-> "SUBMITTED"]
      [] action = "REVIEW" ->
            [status |-> "REVIEWED", reviewerId |-> session, reviewedAt |-> "date",
             reviewerComments |-> sanitizedReviewerComments(reviewerComments)]
      [] action = "FINALIZE" -> [status |-> "FINALIZED", finalizedAt |-> "date"]
      [] action = "RETURN_TO_DRAFT" ->
            [status |-> "DRAFT", reviewerId |-> NULL, reviewedAt |-> NULL,
             reviewerComments |-> NULL]

auditAction(action) ==
    CASE action = "SUBMIT" -> "Submitted observation for review"
      [] action = "REVIEW" -> "Reviewed observation"
      [] action = "FINALIZE" -> "Finalized observation"
      [] action = "RETURN_TO_DRAFT" -> "Returned observation to draft"

\* Seeded fault: previousStatus is read from the row after the update.
Mut_StatusAuditRow_AfterAsPrevious(observation, updatedObservation, session, action) ==
    AuditRow(observation.id, action, session,
             [action |-> auditAction(action),
              previousStatus |-> updatedObservation.status,
              newStatus |-> updatedObservation.status])

StatusAuditRow(observation, updatedObservation, session, action) ==
    AuditRow(observation.id, action, session,
             [action |-> auditAction(action),
              previousStatus |-> observation.status,
              newStatus |-> updatedObservation.status])

\* Lines 12-161: everything up to the update.  resp = Proceed means the request
\* goes on to the update with the row it read (findUnique ... include itemScores).
StatusBegin(st, table, scores, headers, session, action, fail) ==
    LET rateLimitResult == rateLimit(st, getClientIdentifier(headers), StatusRateLimit, WindowMs)
        found == findUnique(table, ObsId)
        observation == [itemScores |-> scores] @@ TheOne(found)
        resp ==
            IF ~rateLimitResult.success
            THEN Resp(429, "Too many requests. Please try again later.")
            ELSE IF session = ANON THEN Resp(401, "Unauthorized")
            ELSE IF action \notin Actions
            THEN Resp(400, "Valid action is required: SUBMIT, REVIEW, FINALIZE, or RETURN_TO_DRAFT")
            ELSE IF fail = "findUnique" THEN InternalServerError("findUnique")
            ELSE IF found = {} THEN Resp(404, "Observation not found")
            ELSE StatusSwitch(observation, session, action)
    IN  [store |-> rateLimitResult.store, resp |-> resp,
         observation |-> IF resp = Proceed THEN found ELSE {}]

----------------------------------------------------------------------------
(* PUT and DELETE /api/observations/[id]   (unnamed/part_008) *)

\* presentStudents > totalStudents: false as soon as one of the two is undefined.
presentExceedsTotal(presentStudents, totalStudents) ==
    /\ presentStudents # NoNumber
    /\ totalStudents # NoNumber
    /\ TheOne(presentStudents) > TheOne(totalStudents)

\* Seeded fault: the edit does not look at the status.
Mut_EditBegin_NoFinalizedCheck(table, session, totalStudents, presentStudents, fail) ==
    LET found == findUnique(table, ObsId)
        resp ==
            IF session = ANON THEN Resp(401, "Unauthorized")
            ELSE IF fail = "findUnique" THEN InternalServerError("findUnique")
            ELSE IF found = {} THEN Resp(404, "Observation not found")
            ELSE IF TheOne(found).observerId # session /\ role(session) # "ADMIN"
            THEN Resp(403, "Forbidden")
            ELSE IF presentStudents # NoNumber /\ totalStudents # NoNumber
                    /\ TheOne(presentStudents) > TheOne(totalStudents)
            THEN Resp(400, "Present students cannot exceed total students")
            ELSE Proceed
    IN  [resp |-> resp, observation |-> IF resp = Proceed THEN found ELSE {}]

\* Lines 61-113 of PUT: the checks before the first write.
EditBegin(table, session, totalStudents, presentStudents, fail) ==
    LET found == findUnique(table, ObsId)
        existingObservation == TheOne(found)
        resp ==
            IF session = ANON THEN Resp(401, "Unauthorized")
            ELSE IF fail = "findUnique" THEN InternalServerError("findUnique")
            ELSE IF found = {} THEN Resp(404, "Observation not found")
            ELSE IF ~isObserverOrAdmin(existingObservation, session)
            THEN Resp(403, "Forbidden")
            ELSE IF existingObservation.status = "FINALIZED"
            THEN Resp(400, "Cannot edit finalized observation")
            ELSE IF presentExceedsTotal(presentStudents, totalStudents)
            THEN Resp(400, "Present students cannot exceed total students")
            ELSE Proceed
    IN  [resp |-> resp, observation |-> IF resp = Proceed THEN found ELSE {}]

\* Seeded fault: the lifecycle fields are written along with the edited ones.
Mut_EditData_WritesStatus(totalStudents, presentStudents) ==
    [status |-> "DRAFT", reviewerId |-> NULL, reviewedAt |-> NULL]
    @@ (IF totalStudents = NoNumber THEN <<>>
        ELSE [f \in {"totalStudents"} |-> TheOne(totalStudents)])

\* The data of the update of PUT: a field the body leaves undefined is not written.
\* (Of the context fields the model carries the two student counts.)
EditData(totalStudents, presentStudents) ==
    LET value(f) == IF f = "totalStudents" THEN totalStudents ELSE presentStudents
        given == {f \in {"totalStudents", "presentStudents"} : value(f) # NoNumber}
    IN  [f \in given |-> TheOne(value(f))]

\* Lines 179-206 of DELETE.
DeleteBegin(table, session, fail) ==
    LET found == findUnique(table, ObsId)
        existingObservation == TheOne(found)
        resp ==
            IF session = ANON THEN Resp(401, "Unauthorized")
            ELSE IF fail = "findUnique" THEN InternalServerError("findUnique")
            ELSE IF found = {} THEN Resp(404, "Observation not found")
            ELSE IF ~isObserverOrAdmin(existingObservation, session)
            THEN Resp(403, "Forbidden")
            ELSE IF existingObservation.status = "FINALIZED"
            THEN Resp(400, "Cannot delete finalized observation")
            ELSE Proceed
    IN  [resp |-> resp, observation |-> IF resp = Proceed THEN found ELSE {}]

----------------------------------------------------------------------------
(* POST /api/observations   (src/app/api/observations/route.ts) *)

\* parseInt(x) || 1 and parseInt(x) || 0 for a number or undefined
parseIntOr(x, dflt) ==
    IF x = NoNumber THEN dflt
    ELSE IF TheOne(x) = 0 THEN dflt ELSE TheOne(x)

validatedTotalStudents(totalStudents) ==
    Max(1, Min(100, parseIntOr(totalStudents, 1)))
validatedPresentStudents(totalStudents, presentStudents) ==
    Max(0, Min(validatedTotalStudents(totalStudents), parseIntOr(presentStudents, 0)))

\* Lines 126-217: the checks before observation.create.  `fields` says which of
\* the body checks the request trips over, if any.
CreateBegin(st, headers, session, fields, totalStudents, presentStudents) ==
    LET rateLimitResult == rateLimit(st, getClientIdentifier(headers), CreateRateLimit, WindowMs)
        resp ==
            IF ~rateLimitResult.success
            THEN Resp(429, "Too many requests. Please try again later.")
            ELSE IF session = ANON THEN Resp(401, "Unauthorized")
            ELSE IF fields = "missing" THEN Resp(400, "Missing required fields")
            ELSE IF validatedPresentStudents(totalStudents, presentStudents)
                        > validatedTotalStudents(totalStudents)
            THEN Resp(400, "Present students cannot exceed total students")
            ELSE IF fields = "invalidDate" THEN Resp(400, "Invalid date format")
            ELSE IF fields = "invalidTime"
            THEN Resp(400, "Invalid time format. Use HH:MM format")
            ELSE Proceed
    IN  [store |-> rateLimitResult.store, resp |-> resp]

NewObservation(session, totalStudents, presentStudents) ==
    [id |-> ObsId, observerId |-> session, status |-> "DRAFT",
     reviewerId |-> NULL, reviewedAt |-> NULL, reviewerComments |-> NULL,
     finalizedAt |-> NULL,
     totalStudents |-> validatedTotalStudents(totalStudents),
     presentStudents |-> validatedPresentStudents(totalStudents, presentStudents)]

----------------------------------------------------------------------------
(* A request past its checks: the storage calls it makes, one by one *)

Request(op, session, action, reviewerComments, totalStudents, presentStudents, scoresBody, observation) ==
    [op |-> op, session |-> session, action |-> action,
     reviewerComments |-> reviewerComments,
     totalStudents |-> totalStudents, presentStudents |-> presentStudents,
     itemScores |-> scoresBody,
     observation |-> observation,       \* what findUnique returned
     updatedObservation |-> {}]         \* what update / create returned

NoScoresBody == [i \in ItemSet |-> [given |-> FALSE, rating |-> NoNumber]]
NoRequest == Request("", ANON, "", "", NoNumber, NoNumber, NoScoresBody, {})

\* itemScores && Object.keys(itemScores).length > 0
hasItemScores(r) == itemScoreData(r.itemScores) # <<>>

\* Seeded fault: a transition clears the item scores of the observation.
Mut_Calls_StatusClearsScores(r) ==
    CASE r.op = "status" -> <<"itemScore.deleteMany", "observation.update", "auditLog.create">>
      [] r.op = "edit" ->
            <<"observation.update">>
            \o (IF itemScoreData(r.itemScores) # <<>>
                THEN <<"itemScore.deleteMany", "itemScore.createMany">>
                ELSE <<>>)
            \o <<"auditLog.create">>
      [] r.op = "delete" ->
            <<"itemScore.deleteMany", "attachment.deleteMany", "observation.delete",
              "auditLog.create">>
      [] r.op = "create" ->
            <<"observation.create">>
            \o (IF itemScoreData(r.itemScores) # <<>> THEN <<"itemScore.createMany">>
                ELSE <<>>)
            \o <<"auditLog.create">>

\* Seeded fault: the delete removes the observation row only.
Mut_Calls_NoCascade(r) ==
    CASE r.op = "status" -> <<"observation.update", "auditLog.create">>
      [] r.op = "edit" ->
            <<"observation.update">>
            \o (IF itemScoreData(r.itemScores) # <<>>
                THEN <<"itemScore.deleteMany", "itemScore.createMany">>
                ELSE <<>>)
            \o <<"auditLog.create">>
      [] r.op = "delete" -> <<"observation.delete", "auditLog.create">>
      [] r.op = "create" ->
            <<"observation.create">>
            \o (IF itemScoreData(r.itemScores) # <<>> THEN <<"itemScore.createMany">>
                ELSE <<>>)
            \o <<"auditLog.create">>

\* The storage calls of a handler after its checks, in program order.
Calls(r) ==
    CASE r.op = "status" -> <<"observation.update", "auditLog.create">>
      [] r.op = "edit" ->
            <<"observation.update">>
            \o (IF hasItemScores(r) THEN <<"itemScore.deleteMany", "itemScore.createMany">>
                ELSE <<>>)
            \o <<"auditLog.create">>
      [] r.op = "delete" ->
            <<"itemScore.deleteMany", "attachment.deleteMany", "observation.delete",
              "auditLog.create">>
      [] r.op = "create" ->
            <<"observation.create">>
            \o (IF hasItemScores(r) THEN <<"itemScore.createMany">> ELSE <<>>)
            \o <<"auditLog.create">>

SuccessCode(r) == IF r.op = "create" THEN 201 ELSE 200

AuditRowOf(r) ==
    CASE r.op = "status" ->
            StatusAuditRow(TheOne(r.observation), TheOne(r.updatedObservation),
                           r.session, r.action)
      [] r.op = "edit" ->
            AuditRow(ObsId, "UPDATE", r.session, [action |-> "Updated observation"])
      [] r.op = "delete" ->
            AuditRow(ObsId, "DELETE", r.session, [action |-> "Deleted observation"])
      [] r.op = "create" ->
            AuditRow(ObsId, "CREATE", r.session, [action |-> "Created new observation"])

UpdateData(r) ==
    IF r.op = "status" THEN StatusData(r.session, r.action, r.reviewerComments)
    ELSE EditData(r.totalStudents, r.presentStudents)

\* Seeded fault: table ObservationItemScore has no unique key.
Mut_uniqueKeyViolated_NoKey(scores, data) == FALSE

\* The key of table ObservationItemScore is (observation, rubric item): rows to
\* insert collide with a stored row of the same observation and rubric item.
uniqueKeyViolated(scores, data) ==
    \E i \in 1..Len(scores), j \in 1..Len(data) :
        scores[i].rubricItemId = data[j].rubricItemId

\* The storage layer throws: the injected failure, a write to a row that is no
\* longer there, item scores for an observation that is not there, item scores
\* whose key is taken.
Throws(d, r, call, fail) ==
    \/ fail = call
    \/ /\ call \in {"observation.update", "observation.delete", "itemScore.createMany"}
       /\ findUnique(d.observations, ObsId) = {}
    \/ /\ call = "itemScore.createMany"
       /\ uniqueKeyViolated(d.itemScores, itemScoreData(r.itemScores))

\* One storage call on the tables d, for request r.  Returns the tables, the
\* request with what the call returned, and the rows appended to AuditLog.
Exec(d, r, call) ==
    CASE call = "observation.update" ->
            LET updated == update(d.observations, ObsId, UpdateData(r))
            IN  [d EXCEPT !.observations = updated,
                          !.r = [r EXCEPT !.updatedObservation = findUnique(updated, ObsId)]]
      [] call = "observation.create" ->
            LET row == NewObservation(r.session, r.totalStudents, r.presentStudents)
            IN  [d EXCEPT !.observations = @ \cup {row},
                          !.idAllocated = TRUE,
                          !.r = [r EXCEPT !.updatedObservation = {row}]]
      [] call = "observation.delete" ->
            [d EXCEPT !.observations = @ \ findUnique(@, ObsId), !.r = r]
      [] call = "itemScore.deleteMany" ->
            [d EXCEPT !.itemScores = <<>>, !.r = r]
      [] call = "itemScore.createMany" ->
            [d EXCEPT !.itemScores = @ \o itemScoreData(r.itemScores), !.r = r]
      [] call = "attachment.deleteMany" ->
            [d EXCEPT !.attachments = {a \in @ : a.observationId # ObsId}, !.r = r]
      [] call = "auditLog.create" ->
            [d EXCEPT !.audit = Append(@, AuditRowOf(r)), !.r = r]

Tables(obs, scores, atts, allocated) ==
    [observations |-> obs, itemScores |-> scores, attachments |-> atts,
     idAllocated |-> allocated,
     audit |-> <<>>, r |-> NoRequest, resp |-> Proceed]

\* The calls from the i-th on, until one throws (the catch block answers 500 and
\* undoes nothing) or the handler returns its success response.
RECURSIVE RunFrom(_, _, _, _)
RunFrom(d, r, i, fail) ==
    IF i > Len(Calls(r)) THEN [d EXCEPT !.resp = Resp(SuccessCode(r), "")]
    ELSE IF Throws(d, r, Calls(r)[i], fail)
    THEN [d EXCEPT !.resp = InternalServerError(Calls(r)[i])]
    ELSE LET e == Exec(d, r, Calls(r)[i])
         IN  RunFrom(e, e.r, i + 1, fail)

----------------------------------------------------------------------------
(* Whole requests, run one at a time *)

Procs == {1, 2}

\* rateLimit has not been called directly; maxRequests is the limit the calls
\* to come are made with, when they all use one.
NoCall(maxRequests) ==
    [called |-> FALSE, identifier |-> "", maxRequests |-> maxRequests, dt |-> 0,
     success |-> FALSE, remaining |-> 0, resetTime |-> 0,
     opened |-> FALSE, left |-> 0 - 1, prior |-> 0, succeeded |-> 0, limits |-> {}]

\* No scoring function has been called.
NoScoring == [fn |-> "none", done |-> FALSE]

Init ==
    /\ observations = {}
    /\ itemScores = <<>>
    /\ attachments = {}
    /\ idAllocated = FALSE
    /\ store = [k \in ClientKeys |-> NoEntry]
    /\ last = Completed([NoRequest EXCEPT !.op = "none"], Proceed)
    /\ auditAppended = <<>>
    /\ pc = [p \in Procs |-> 0]
    /\ req = [p \in Procs |-> NoRequest]
    /\ scoring = NoScoring
    /\ limited = NoCall(0)

\* The handler's effect and response become visible.
Respond(r, st, d) ==
    /\ store' = st
    /\ observations' = d.observations
    /\ itemScores' = d.itemScores
    /\ attachments' = d.attachments
    /\ idAllocated' = d.idAllocated
    /\ last' = Completed(r, d.resp)
    /\ auditAppended' = d.audit
    /\ UNCHANGED <<scoring, limited>>

\* Seeded fault: a refused request is written to the audit log all the same.
Mut_Finish_AuditsRefusals(r, resp, fail) ==
    IF resp = Proceed
    THEN RunFrom(Tables(observations, itemScores, attachments, idAllocated), r, 1, fail)
    ELSE [Tables(observations, itemScores, attachments, idAllocated) EXCEPT
            !.resp = resp,
            !.audit = <<AuditRow(ObsId, r.action, r.session, [action |-> resp.error])>>]

\* The handler from its first storage write to its response, on the current tables.
Finish(r, resp, fail) ==
    IF resp = Proceed
    THEN RunFrom(Tables(observations, itemScores, attachments, idAllocated), r, 1, fail)
    ELSE [Tables(observations, itemScores, attachments, idAllocated) EXCEPT !.resp = resp]

ObservationPOST(headers, session, fields, totalStudents, presentStudents, scoresBody, dt, fail) ==
    LET b == CreateBegin(Elapse(store, dt), headers, session, fields,
                         totalStudents, presentStudents)
        r == Request("create", session, "", "", totalStudents, presentStudents,
                     scoresBody, {})
    IN  /\ b.resp = Proceed => ~idAllocated
        /\ Respond(r, b.store, Finish(r, b.resp, fail))
        /\ UNCHANGED procVars

StatusPUT(headers, session, action, reviewerComments, dt, fail) ==
    LET b == StatusBegin(Elapse(store, dt), observations, itemScores, headers,
                         session, action, fail)
        r == Request("status", session, action, reviewerComments, NoNumber, NoNumber,
                     NoScoresBody, b.observation)
    IN  /\ Respond(r, b.store, Finish(r, b.resp, fail))
        /\ UNCHANGED procVars

ObservationPUT(session, totalStudents, presentStudents, scoresBody, dt, fail) ==
    LET b == EditBegin(observations, session, totalStudents, presentStudents, fail)
        r == Request("edit", session, "", "", totalStudents, presentStudents,
                     scoresBody, b.observation)
    IN  /\ Respond(r, Elapse(store, dt), Finish(r, b.resp, fail))
        /\ UNCHANGED procVars

ObservationDELETE(session, dt, fail) ==
    LET b == DeleteBegin(observations, session, fail)
        r == Request("delete", session, "", "", NoNumber, NoNumber, NoScoresBody,
                     b.observation)
    IN  /\ Respond(r, Elapse(store, dt), Finish(r, b.resp, fail))
        /\ UNCHANGED procVars

\* A file is uploaded for the observation: a row of table Attachment that refers
\* to it (types: interface Attachment).  The upload route itself is not among the
\* handlers above; it is taken to add the row and nothing else.
AttachmentRow(session) == [id |-> "a1", observationId |-> ObsId, uploadedBy |-> session]

AttachmentPOST(session, dt) ==
    /\ session \in Users
    /\ findUnique(observations, ObsId) # {}
    /\ attachments' = attachments \cup {AttachmentRow(session)}
    /\ store' = Elapse(store, dt)
    /\ last' = Completed([NoRequest EXCEPT !.op = "upload", !.session = session],
                         Resp(201, ""))
    /\ auditAppended' = <<>>
    /\ UNCHANGED <<observations, itemScores, idAllocated, procVars, scoring, limited>>

\* Inputs of the sequential specification.  Requests arrive more than one
\* rate-limit window apart, so none of them is rate limited here (SpecRate lets
\* them arrive inside one window), and no storage call fails (SpecFail).
Creators == {"u1", "u2", ANON}
CreateFields == {"valid", "missing"}
CreateCounts == {<<{2}, {1}>>}
EditCounts == {<<NoNumber, NoNumber>>, <<{3}, {2}>>, <<{1}, {2}>>}
Apart == WindowMs + 1

Next ==
    \/ \E session \in Creators, fields \in CreateFields, c \in CreateCounts,
          scoresBody \in ScoreBodies :
            ObservationPOST(NoHeaders, session, fields, c[1], c[2], scoresBody, Apart, "none")
    \/ \E session \in Sessions, action \in ActionInputs,
          reviewerComments \in CommentInputs :
            StatusPUT(NoHeaders, session, action, reviewerComments, Apart, "none")
    \/ \E session \in Sessions, c \in EditCounts, scoresBody \in ScoreBodies :
            ObservationPUT(session, c[1], c[2], scoresBody, Apart, "none")
    \/ \E session \in Sessions :
            ObservationDELETE(session, Apart, "none")

Spec == Init /\ [][Next]_vars

\* Requests inside one rate-limit window (dt = 0), at its last instant and after
\* it: the limiter rejects the 21st status request of a window.
RateSessions == {"u1", "u2", ANON}
RateActions == {"SUBMIT", "REVIEW", "PUBLISH"}
RateScores == {NoScoresBody, [i \in ItemSet |-> [given |-> TRUE, rating |-> {0}]]}
RateGaps == {0, WindowMs, Apart}

NextRate ==
    \/ \E scoresBody \in RateScores, dt \in RateGaps :
            ObservationPOST(NoHeaders, "u1", "valid", {2}, {1}, scoresBody, dt, "none")
    \/ \E session \in RateSessions, action \in RateActions, dt \in RateGaps :
            StatusPUT(NoHeaders, session, action, "", dt, "none")

SpecRate == Init /\ [][NextRate]_vars

\* Storage calls that throw: each handler with each of its calls failing.
Failures == {"none", "findUnique", "observation.create", "observation.update",
             "observation.delete", "itemScore.deleteMany", "itemScore.createMany",
             "attachment.deleteMany", "auditLog.create"}
FailSessions == {"u1", "u2"}

NextFail ==
    \/ \E scoresBody \in ScoreBodies, fail \in Failures :
            ObservationPOST(NoHeaders, "u1", "valid", {2}, {1}, scoresBody, Apart, fail)
    \/ \E session \in FailSessions, action \in Actions, fail \in Failures :
            StatusPUT(NoHeaders, session, action, "good", Apart, fail)
    \/ \E session \in FailSessions, scoresBody \in ScoreBodies, fail \in Failures :
            ObservationPUT(session, {3}, {2}, scoresBody, Apart, fail)
    \/ \E session \in FailSessions, fail \in Failures :
            ObservationDELETE(session, Apart, fail)

SpecFail == Init /\ [][NextFail]_vars

\* An observation with uploaded files: created and edited by its observer,
\* taken through its lifecycle by the reviewer, deleted by anyone who tries.
FileActions == {<<"u1", "SUBMIT">>, <<"u2", "REVIEW">>, <<"u2", "FINALIZE">>,
                <<"u2", "RETURN_TO_DRAFT">>}

NextFiles ==
    \/ \E scoresBody \in ScoreBodies :
            ObservationPOST(NoHeaders, "u1", "valid", {2}, {1}, scoresBody, Apart, "none")
    \/ AttachmentPOST("u1", Apart)
    \/ \E a \in FileActions :
            StatusPUT(NoHeaders, a[1], a[2], "", Apart, "none")
    \/ \E session \in Sessions, c \in EditCounts, scoresBody \in ScoreBodies :
            ObservationPUT(session, c[1], c[2], scoresBody, Apart, "none")
    \/ \E session \in Sessions :
            ObservationDELETE(session, Apart, "none")

SpecFiles == Init /\ [][NextFiles]_vars

----------------------------------------------------------------------------
(* Requests that interleave: a handler is suspended at every await, so between *)
(* its findUnique and each of its writes other requests run.                   *)

\* A request that passed its checks takes slot p; one that did not is answered.
Start(p, r, st, resp) ==
    /\ pc[p] = 0
    /\ store' = st
    /\ UNCHANGED <<dbVars, scoring, limited>>
    /\ IF resp = Proceed
       THEN /\ pc' = [pc EXCEPT ![p] = 1]
            /\ req' = [req EXCEPT ![p] = r]
            /\ UNCHANGED <<last, auditAppended>>
       ELSE /\ last' = Completed(r, resp)
            /\ auditAppended' = <<>>
            /\ UNCHANGED procVars

StatusStart(p, headers, session, action, reviewerComments, dt, fail) ==
    LET b == StatusBegin(Elapse(store, dt), observations, itemScores, headers,
                         session, action, fail)
    IN  Start(p, Request("status", session, action, reviewerComments, NoNumber,
                         NoNumber, NoScoresBody, b.observation),
              b.store, b.resp)

EditStart(p, session, totalStudents, presentStudents, scoresBody, dt, fail) ==
    LET b == EditBegin(observations, session, totalStudents, presentStudents, fail)
    IN  Start(p, Request("edit", session, "", "", totalStudents, presentStudents,
                         scoresBody, b.observation),
              Elapse(store, dt), b.resp)

DeleteStart(p, session, dt, fail) ==
    LET b == DeleteBegin(observations, session, fail)
    IN  Start(p, Request("delete", session, "", "", NoNumber, NoNumber, NoScoresBody,
                         b.observation),
              Elapse(store, dt), b.resp)

\* The next storage call of the request in slot p, on the tables as they are now.
\* After its last call, or when the call throws, the request is answered.
Call(p, fail) ==
    LET r == req[p]
        call == Calls(r)[pc[p]]
        d == Tables(observations, itemScores, attachments, idAllocated)
        e == Exec(d, r, call)
    IN  /\ pc[p] > 0
        /\ UNCHANGED <<store, scoring, limited>>
        /\ IF Throws(d, r, call, fail)
           THEN /\ UNCHANGED dbVars
                /\ last' = Completed(r, InternalServerError(call))
                /\ auditAppended' = <<>>
                /\ pc' = [pc EXCEPT ![p] = 0]
                /\ req' = [req EXCEPT ![p] = NoRequest]
           ELSE /\ observations' = e.observations
                /\ itemScores' = e.itemScores
                /\ attachments' = e.attachments
                /\ idAllocated' = e.idAllocated
                /\ IF pc[p] = Len(Calls(r))
                   THEN /\ last' = Completed(r, Resp(SuccessCode(r), ""))
                        /\ auditAppended' = e.audit
                        /\ pc' = [pc EXCEPT ![p] = 0]
                        /\ req' = [req EXCEPT ![p] = NoRequest]
                   ELSE /\ pc' = [pc EXCEPT ![p] = pc[p] + 1]
                        /\ req' = [req EXCEPT ![p] = e.r]
                        /\ UNCHANGED <<last, auditAppended>>

\* Two requests on the same observation at a time: slot 1 takes status requests,
\* slot 2 takes status, edit and delete requests.  The observation is created by
\* its observer u1 with a rated item; u2 reviews.
ConcSessions == {"u1", "u2"}
ConcScores == {NoScoresBody, [i \in ItemSet |-> [given |-> TRUE, rating |-> {1}]]}
RatedScores == [i \in ItemSet |-> [given |-> TRUE, rating |-> {0}]]

NextConc ==
    \/ ObservationPOST(NoHeaders, "u1", "valid", {2}, {1}, RatedScores, Apart, "none")
    \/ \E p \in Procs, session \in ConcSessions, action \in Actions :
            StatusStart(p, NoHeaders, session, action, "", Apart, "none")
    \/ \E scoresBody \in ConcScores :
            EditStart(2, "u1", {3}, {2}, scoresBody, Apart, "none")
    \/ DeleteStart(2, "u1", Apart, "none")
    \/ \E p \in Procs : Call(p, "none")

SpecConc == Init /\ [][NextConc]_vars

\* Two edits of the observer on the same observation at a time, each replacing
\* the item scores, and a delete.
EditScores == {[i \in ItemSet |-> [given |-> TRUE, rating |-> r]] : r \in OptRatings}

NextEdits ==
    \/ \E scoresBody \in ScoreBodies :
            ObservationPOST(NoHeaders, "u1", "valid", {2}, {1}, scoresBody, Apart, "none")
    \/ \E p \in Procs, c \in EditCounts, scoresBody \in EditScores :
            EditStart(p, "u1", c[1], c[2], scoresBody, Apart, "none")
    \/ DeleteStart(2, "u1", Apart, "none")
    \/ \E p \in Procs : Call(p, "none")

SpecEdits == Init /\ [][NextEdits]_vars

\* Create and edit requests with student counts of every shape: missing, zero,
\* small, and above the upper limit of 100; an edit may send one count only.
MaxStudents == 2
CountInputs == {NoNumber} \cup {{n} : n \in 0..MaxStudents} \cup {{101}}

NextCounts ==
    \/ \E totalStudents \in CountInputs, presentStudents \in CountInputs,
          scoresBody \in ScoreBodies :
            ObservationPOST(NoHeaders, "u1", "valid", totalStudents, presentStudents,
                            scoresBody, Apart, "none")
    \/ \E session \in Sessions, totalStudents \in CountInputs,
          presentStudents \in CountInputs :
            ObservationPUT(session, totalStudents, presentStudents, NoScoresBody,
                           Apart, "none")
    \/ ObservationDELETE("u1", Apart, "none")

SpecCounts == Init /\ [][NextCounts]_vars

----------------------------------------------------------------------------
(* rateLimit called directly.  Beside the arguments and the result of the call *)
(* the record keeps the window as a caller sees it, told from the times of    *)
(* the calls alone: `left` is the time from this call to the end of the       *)
(* window it fell in, `opened` says that it came later than the end of the    *)
(* window before (or that there was none), `prior` counts the successful      *)
(* calls of the window before this one, `succeeded` those including it, and   *)
(* `limits` collects the maxRequests of the successful calls.                 *)

RateLimitCall(identifier, maxRequests, windowMs, dt) ==
    LET res == rateLimit(Elapse(store, dt), identifier, maxRequests, windowMs)
        opened == limited.left < 0 \/ dt > limited.left
        prior == IF opened THEN 0 ELSE limited.succeeded
        limits == IF opened THEN {} ELSE limited.limits
    IN  /\ store' = res.store
        /\ limited' = [called |-> TRUE, identifier |-> identifier,
                       maxRequests |-> maxRequests, dt |-> dt,
                       success |-> res.success, remaining |-> res.remaining,
                       resetTime |-> res.resetTime,
                       opened |-> opened,
                       left |-> IF opened THEN windowMs ELSE limited.left - dt,
                       prior |-> prior,
                       succeeded |-> prior + (IF res.success THEN 1 ELSE 0),
                       limits |-> limits \cup (IF res.success THEN {maxRequests} ELSE {})]
        /\ UNCHANGED <<dbVars, last, auditAppended, procVars, scoring>>

\* One identifier called with one maxRequests, at gaps up to past the window.
MaxLimit == 4
LimiterWindow == 4
FixedLimits == 1..MaxLimit
LimiterGaps == 0..(LimiterWindow + 1)

InitLimiter ==
    /\ observations = {}
    /\ itemScores = <<>>
    /\ attachments = {}
    /\ idAllocated = FALSE
    /\ store = [k \in ClientKeys |-> NoEntry]
    /\ last = Completed([NoRequest EXCEPT !.op = "none"], Proceed)
    /\ auditAppended = <<>>
    /\ pc = [p \in Procs |-> 0]
    /\ req = [p \in Procs |-> NoRequest]
    /\ scoring = NoScoring
    /\ \E maxRequests \in FixedLimits : limited = NoCall(maxRequests)

NextLimiter ==
    \E dt \in LimiterGaps :
        RateLimitCall("unknown", limited.maxRequests, LimiterWindow, dt)

SpecLimiter == InitLimiter /\ [][NextLimiter]_vars

\* The endpoints of one client: each calls rateLimit with the client's
\* identifier and its own limit, all on the one store.
ListRateLimit == 50
EndpointLimits == {ListRateLimit, StatusRateLimit, CreateRateLimit}

NextShared ==
    \E maxRequests \in EndpointLimits, dt \in RateGaps :
        RateLimitCall(getClientIdentifier(NoHeaders), maxRequests, WindowMs, dt)

SpecShared == Init /\ [][NextShared]_vars

----------------------------------------------------------------------------
(* utils/scoring.ts and the score report of the export route.                 *)
(* A percentage is kept in hundredths (75.00 is 7500).  The percentages that  *)
(* Math.round meets here are never within floating-point error of a half, so  *)
(* the rounding is the exact one.  Rubric items are named by their position.  *)

PerItemMax == 4
MaxScores == {4, 5}
MaxSame == 4
MaxDomains == 2
MaxCount == 2

RECURSIVE reduceSum(_)
reduceSum(numbers) ==
    IF numbers = <<>> THEN 0 ELSE Head(numbers) + reduceSum(Tail(numbers))

\* x || 0 for a number, null or undefined
orZero(x) == IF x = NoNumber THEN 0 ELSE TheOne(x)

\* Math.round(100 * (100 * total / max)), for max > 0
roundedHundredths(total, max) == (2 * 10000 * total + max) \div (2 * max)

RubricDomain(maxScores) ==
    [id |-> "d1", name |-> "Domain 1",
     items |-> [i \in 1..Len(maxScores) |-> [id |-> i, maxScore |-> maxScores[i]]]]

\* A rubric of so many domains: the items are dealt to the domains in order, the
\* first domains taking one item more when the division leaves a rest.
RubricDomains(maxScores, domains) ==
    LET items == Len(maxScores)
        upTo(d) == (d * items + domains - 1) \div domains
    IN  [d \in 1..domains |->
            [id |-> d, name |-> d,
             items |-> [k \in 1..(upTo(d) - upTo(d - 1)) |->
                          [id |-> upTo(d - 1) + k, maxScore |-> maxScores[upTo(d - 1) + k]]]]]

\* Lines 17-46 for one domain.  itemScores maps an item to its rating; an item
\* without an entry and an entry without rating both read as undefined.
calculateDomainScore(domain, scores) ==
    LET domainItemScores ==
            [i \in 1..Len(domain.items) |->
                LET id == domain.items[i].id
                    score == IF id \in DOMAIN scores THEN scores[id] ELSE NoNumber
                IN  [rubricItemId |-> id,
                     rating |-> IF orZero(score) = 0 THEN NoNumber ELSE score]]
        applicableItems == SelectSeq(domainItemScores, LAMBDA score : score.rating # NoNumber)
        total == reduceSum([i \in 1..Len(applicableItems) |->
                                orZero(applicableItems[i].rating)])
        maxPossibleScore ==
            IF domain.items = <<>> THEN 0
            ELSE Len(applicableItems) * domain.items[1].maxScore
        percentage ==
            IF maxPossibleScore > 0 THEN roundedHundredths(total, maxPossibleScore) ELSE 0
    IN  [domainId |-> domain.id, domainName |-> domain.name, total |-> total,
         maxPossible |-> maxPossibleScore,     \* the local maxPossibleScore, not returned
         percentage |-> percentage, itemScores |-> domainItemScores]

calculateDomainScores(domains, scores) ==
    [d \in 1..Len(domains) |-> calculateDomainScore(domains[d], scores)]

calculateGrandTotal(domainScores) ==
    reduceSum([d \in 1..Len(domainScores) |-> domainScores[d].total])

DEFAULT_OVERALL_RATING_THRESHOLDS ==
    << [minPercentage |-> 90, maxPercentage |-> 100, rating |-> "Excellent", color |-> "success"],
       [minPercentage |-> 75, maxPercentage |-> 89, rating |-> "Good", color |-> "primary"],
       [minPercentage |-> 60, maxPercentage |-> 74, rating |-> "Average", color |-> "warning"],
       [minPercentage |-> 50, maxPercentage |-> 59, rating |-> "Weak", color |-> "warning"],
       [minPercentage |-> 0, maxPercentage |-> 49, rating |-> "Very Poor", color |-> "danger"] >>

\* Lines 78-87: thresholds.find(...), then threshold?.rating || 'Unknown'.
thresholdFor(roundedPercentage, thresholds) ==
    LET hits == {i \in 1..Len(thresholds) :
                    /\ roundedPercentage >= 100 * thresholds[i].minPercentage
                    /\ roundedPercentage <= 100 * thresholds[i].maxPercentage}
        first == CHOOSE i \in hits : \A j \in hits : i <= j
    IN  IF hits = {}
        THEN [rating |-> "Unknown", color |-> "gray", percentage |-> roundedPercentage]
        ELSE [rating |-> thresholds[first].rating, color |-> thresholds[first].color,
              percentage |-> roundedPercentage]

Mut_calculateOverallRating_AllItems(domainScores, thresholds) ==
    IF Len(domainScores) = 0
    THEN [rating |-> "No Data", color |-> "gray", percentage |-> 0]
    ELSE LET grandTotal == calculateGrandTotal(domainScores)
             totalMaxScore ==
                reduceSum([d \in 1..Len(domainScores) |->
                                Len(domainScores[d].itemScores) * PerItemMax])
             roundedPercentage ==
                IF totalMaxScore > 0 THEN roundedHundredths(grandTotal, totalMaxScore) ELSE 0
         IN  thresholdFor(roundedPercentage, thresholds)

calculateOverallRating(domainScores, thresholds) ==
    IF Len(domainScores) = 0
    THEN [rating |-> "No Data", color |-> "gray", percentage |-> 0]
    ELSE LET grandTotal == calculateGrandTotal(domainScores)
             applicable(domain) ==
                SelectSeq(domain.itemScores,
                          LAMBDA score : score.rating # NoNumber /\ score.rating # {0})
             totalMaxScore ==
                reduceSum([d \in 1..Len(domainScores) |->
                                Len(applicable(domainScores[d])) * PerItemMax])
             roundedPercentage ==
                IF totalMaxScore > 0 THEN roundedHundredths(grandTotal, totalMaxScore) ELSE 0
         IN  thresholdFor(roundedPercentage, thresholds)

\* export/route.ts, calculateDomainScores: the domains in the order of their
\* first item score (the insertion order of the Map).
RECURSIVE domainOrder(_, _)
domainOrder(scores, seen) ==
    IF scores = <<>> THEN <<>>
    ELSE LET domainId == Head(scores).rubricItem.domain.id
         IN  IF domainId \in seen THEN domainOrder(Tail(scores), seen)
             ELSE <<domainId>> \o domainOrder(Tail(scores), seen \cup {domainId})

\* The percentage of the export route is not rounded: it is kept as the fraction
\* num / den.
exportCalculateDomainScores(scores) ==
    LET order == domainOrder(scores, {})
        entry(domainId) ==
            LET members == SelectSeq(scores,
                                     LAMBDA score : score.rubricItem.domain.id = domainId)
                total == reduceSum([i \in 1..Len(members) |-> orZero(members[i].rating)])
                maxPossible == reduceSum([i \in 1..Len(members) |->
                                            members[i].rubricItem.maxScore])
            IN  [domainId |-> domainId, total |-> total, maxPossible |-> maxPossible,
                 percentage |-> IF maxPossible > 0
                                THEN [num |-> 100 * total, den |-> maxPossible]
                                ELSE [num |-> 0, den |-> 1],
                 itemScores |-> members]
    IN  [d \in 1..Len(order) |-> entry(order[d])]

\* validateObservationData.  A rating is a number, null or undefined (a missing
\* rating); the three are told apart here because the test at line 142 does.
UNDEFINED == [type |-> "undefined", value |-> 0]
JSNULL == [type |-> "null", value |-> 0]
Number(n) == [type |-> "number", value |-> n]

TotalStudentsError == "Total students must be greater than 0"
PresentNegativeError == "Present students cannot be negative"
PresentExceedsError == "Present students cannot exceed total students"
NoScoresError == "At least one rubric item must be scored"

Mut_validateObservationData_FirstOnly(data) ==
    LET hasScores ==
            \E i \in 1..Len(data.itemScores) :
                data.itemScores[i].rating # UNDEFINED /\ data.itemScores[i].rating # Number(0)
        errors ==
            IF data.totalStudents <= 0 THEN <<TotalStudentsError>>
            ELSE IF data.presentStudents < 0 THEN <<PresentNegativeError>>
            ELSE IF data.presentStudents > data.totalStudents THEN <<PresentExceedsError>>
            ELSE IF ~hasScores THEN <<NoScoresError>>
            ELSE <<>>
    IN  [isValid |-> Len(errors) = 0, errors |-> errors]

\* data.itemScores is the sequence Object.values(data.itemScores).
validateObservationData(data) ==
    LET push(cond, message) == IF cond THEN <<message>> ELSE <<>>
        hasScores ==
            \E i \in 1..Len(data.itemScores) :
                data.itemScores[i].rating # UNDEFINED /\ data.itemScores[i].rating # Number(0)
        errors ==
            push(data.totalStudents <= 0, TotalStudentsError)
            \o push(data.presentStudents < 0, PresentNegativeError)
            \o push(data.presentStudents > data.totalStudents, PresentExceedsError)
            \o push(~hasScores, NoScoresError)
    IN  [isValid |-> Len(errors) = 0, errors |-> errors]

\* A call of validateObservationData: its argument, and its result once it has run.
ValidationCall(totalStudents, presentStudents, ratings) ==
    [fn |-> "validateObservationData",
     data |-> [totalStudents |-> totalStudents, presentStudents |-> presentStudents,
               itemScores |-> [i \in 1..Len(ratings) |-> [rating |-> ratings[i], comment |-> ""]]],
     done |-> FALSE, result |-> <<>>]

\* A call of a scoring function: its arguments, and its result once it has run.
ScoringCall(fn, maxScores, ratings, percentage, domains) ==
    [fn |-> fn, maxScores |-> maxScores, ratings |-> ratings, percentage |-> percentage,
     domains |-> domains,
     thresholds |-> DEFAULT_OVERALL_RATING_THRESHOLDS, done |-> FALSE, result |-> <<>>]

Scored(fn, result) ==
    /\ scoring.fn = fn
    /\ ~scoring.done
    /\ scoring' = [scoring EXCEPT !.done = TRUE, !.result = result]
    /\ UNCHANGED <<dbVars, store, last, auditAppended, procVars, limited>>

\* calculateDomainScores of the engine on a domain of two items.
EngineDomainScores ==
    Scored("calculateDomainScores",
           calculateDomainScores(<<RubricDomain(scoring.maxScores)>>, scoring.ratings))

\* calculateDomainScores of the export route on the item scores of an
\* observation: one row per rated or unrated item, each with its rubric item.
ExportDomainScores ==
    Scored("export.calculateDomainScores",
           exportCalculateDomainScores(
               [i \in 1..Len(scoring.ratings) |->
                   [rating |-> scoring.ratings[i],
                    rubricItem |-> [domain |-> [id |-> "d1"],
                                    maxScore |-> scoring.maxScores[i]]]]))

\* calculateOverallRating on the domain scores the engine computes for the
\* rubric's domains.
OverallRating ==
    Scored("calculateOverallRating",
           <<calculateOverallRating(
                calculateDomainScores(RubricDomains(scoring.maxScores, scoring.domains),
                                      scoring.ratings),
                scoring.thresholds)>>)

\* validateObservationData on the data of the form.
Validate ==
    Scored("validateObservationData", <<validateObservationData(scoring.data)>>)

\* The threshold search of calculateOverallRating on a rounded percentage.
ThresholdSearch ==
    Scored("thresholds.find", <<thresholdFor(scoring.percentage, scoring.thresholds)>>)

\* Inputs: two items with any rating or none; for the overall rating a longer
\* list of items rated 4, 3, 2, 1, 0 (so many of each) on the scale of 4; for
\* the threshold search every percentage from 0.00 to 100.00.
Repeat(x, n) == [i \in 1..n |-> x]
ItemRatings == {NoNumber} \cup {{n} : n \in 0..PerItemMax}
RatingLists ==
    {Repeat({4}, c4) \o Repeat({3}, c3) \o Repeat({2}, c2) \o Repeat({1}, c1)
        \o Repeat({0}, c0) :
        c4 \in 0..MaxSame, c3 \in 0..MaxSame, c2 \in 0..1, c1 \in 0..1, c0 \in 0..1}
Hundredths == 0..10000
StudentCounts == (0 - MaxCount)..MaxCount
FormRatings == {UNDEFINED, JSNULL} \cup {Number(n) : n \in 0..1}
FormRatingLists == {<<>>} \cup {<<r>> : r \in FormRatings} \cup (FormRatings \X FormRatings)

ScoringCalls ==
    {ScoringCall(fn, <<m1, m2>>, <<r1, r2>>, 0, 1) :
        fn \in {"calculateDomainScores", "export.calculateDomainScores"},
        m1 \in MaxScores, m2 \in MaxScores, r1 \in ItemRatings, r2 \in ItemRatings}
    \cup {ScoringCall("calculateDomainScores", <<>>, <<>>, 0, 1)}      \* a domain without items
    \cup {ScoringCall("calculateOverallRating", Repeat(PerItemMax, Len(ratings)), ratings, 0, n) :
            ratings \in RatingLists, n \in 1..MaxDomains}
    \cup {ScoringCall("calculateOverallRating", <<>>, <<>>, 0, 0)}     \* no domain scores
    \cup {ScoringCall("thresholds.find", <<>>, <<>>, roundedPercentage, 0) :
            roundedPercentage \in Hundredths}
    \cup {ValidationCall(totalStudents, presentStudents, ratings) :
            totalStudents \in StudentCounts, presentStudents \in StudentCounts,
            ratings \in FormRatingLists}

InitScoring ==
    /\ observations = {}
    /\ itemScores = <<>>
    /\ attachments = {}
    /\ idAllocated = FALSE
    /\ store = [k \in ClientKeys |-> NoEntry]
    /\ last = Completed([NoRequest EXCEPT !.op = "none"], Proceed)
    /\ auditAppended = <<>>
    /\ pc = [p \in Procs |-> 0]
    /\ req = [p \in Procs |-> NoRequest]
    /\ scoring \in ScoringCalls
    /\ limited = NoCall(0)

NextScoring ==
    \/ EngineDomainScores
    \/ ExportDomainScores
    \/ OverallRating
    \/ ThresholdSearch
    \/ Validate

SpecScoring == InitScoring /\ [][NextScoring]_vars

----------------------------------------------------------------------------
(* Properties *)

Exists == observations # {}
Row == TheOne(observations)
StatusOf(table) == IF table = {} THEN "none" ELSE TheOne(table).status
TablesUnchanged == observations' = observations /\ itemScores' = itemScores
Succeeded(l) == l.code \in {200, 201}

StateErrors ==
    {"Only draft observations can be submitted",
     "Only submitted observations can be reviewed",
     "Only reviewed observations can be finalized",
     "Only submitted or reviewed observations can be returned to draft"}

\* C1 Terminal immutability: once the status is FINALIZED, no request of any
\* actor changes the observation or its item scores, and no transition, edit or
\* delete is answered with success.
C1_TerminalImmutability ==
    [][(Exists /\ Row.status = "FINALIZED")
        => /\ TablesUnchanged
           /\ last'.op \in {"status", "edit", "delete"} => ~Succeeded(last')]_vars

C1_Witness ==
    /\ Exists /\ Row.status = "FINALIZED"
    /\ last.op = "edit" /\ last.session = "u3" /\ last.code = 400
    /\ last.error = "Cannot edit finalized observation"

LegalChange(from, to, action) ==
    \/ from = "DRAFT" /\ to = "SUBMITTED" /\ action = "SUBMIT"
    \/ from = "SUBMITTED" /\ to = "REVIEWED" /\ action = "REVIEW"
    \/ from = "REVIEWED" /\ to = "FINALIZED" /\ action = "FINALIZE"
    \/ from \in {"SUBMITTED", "REVIEWED"} /\ to = "DRAFT" /\ action = "RETURN_TO_DRAFT"

\* C2 Lifecycle legality: an observation is created in DRAFT, its status is
\* always one of the four statuses, and every change of status is one of the
\* five legal changes, made by the status request of that name.
C2_LifecycleLegality ==
    [][/\ Exists' => Row'.status \in Statuses
       /\ (~Exists /\ Exists') => Row'.status = "DRAFT"
       /\ (Exists /\ Exists' /\ Row'.status # Row.status)
            => /\ last'.op = "status"
               /\ LegalChange(Row.status, Row'.status, last'.action)]_vars

C2_Witness ==
    /\ Exists /\ Row.status = "DRAFT"
    /\ last.op = "status" /\ last.action = "RETURN_TO_DRAFT" /\ last.code = 200

NotFromDraft == {"REVIEW", "FINALIZE", "RETURN_TO_DRAFT"}

\* C3 as stated: on a DRAFT observation a REVIEW, FINALIZE or RETURN_TO_DRAFT
\* request of any actor fails with a state-precondition error, status unchanged.
C3_AnyActorStateError ==
    [][(Exists /\ Row.status = "DRAFT" /\ last'.op = "status"
        /\ last'.session \in Users /\ last'.action \in NotFromDraft)
        => /\ last'.code = 400 /\ last'.error \in StateErrors
           /\ TablesUnchanged]_vars

\* C3 amended: on a DRAFT observation a REVIEW, FINALIZE or RETURN_TO_DRAFT
\* request fails and leaves the tables unchanged; a reviewer or admin gets the
\* state-precondition error, any other user the authorization error.
C3_FromDraftOnlySubmit ==
    [][(Exists /\ Row.status = "DRAFT" /\ last'.op = "status"
        /\ last'.session \in Users /\ last'.action \in NotFromDraft)
        => /\ TablesUnchanged
           /\ auditAppended' = <<>>
           /\ IF role(last'.session) \in {"REVIEWER", "ADMIN"}
              THEN last'.code = 400 /\ last'.error \in StateErrors
              ELSE last'.code = 403]_vars

C3_Witness ==
    /\ Exists /\ Row.status = "DRAFT"
    /\ last.op = "status" /\ last.action = "FINALIZE" /\ last.session = "u2"
    /\ last.code = 400 /\ last.error = "Only reviewed observations can be finalized"

SomeRated == \E i \in 1..Len(itemScores) : itemScores[i].rating # NoNumber

MayTransition(observation, session, action) ==
    IF action = "SUBMIT"
    THEN session = observation.observerId \/ role(session) = "ADMIN"
    ELSE role(session) \in {"REVIEWER", "ADMIN"}

\* C5 Transition authorization: the status changes only by a request whose actor
\* may make it (SUBMIT: observer of record or admin; the others: reviewer or
\* admin), and a request of a user who may not is answered 403 and changes nothing.
C5_TransitionAuthorization ==
    [][/\ (Exists /\ Exists' /\ Row'.status # Row.status)
            => MayTransition(Row, last'.session, last'.action)
       /\ (Exists /\ last'.op = "status" /\ last'.session \in Users
           /\ last'.action \in Actions
           /\ ~MayTransition(Row, last'.session, last'.action))
            => /\ last'.code = 403 /\ last'.error = "Forbidden"
               /\ TablesUnchanged
               /\ auditAppended' = <<>>]_vars

C5_Witness ==
    /\ Exists /\ Row.observerId = "u1" /\ Row.status = "DRAFT" /\ SomeRated
    /\ last.op = "status" /\ last.action = "SUBMIT" /\ last.session = "u2"
    /\ last.code = 403

WroteStatus(p) == pc[p] = 2 /\ req[p].op = "status"

\* C6 Of two transition requests that read the same row of an observation, at
\* most one writes a status: never have both made their update from one read state.
C6_NoDoubleTransition ==
    \A p \in Procs : \A q \in Procs \ {p} :
        ~(WroteStatus(p) /\ WroteStatus(q) /\ req[p].observation = req[q].observation)

\* C7 Once the status is FINALIZED no step of any request, however interleaved,
\* changes the observation row or its item scores.
C7_FinalizedImmutableInterleaved ==
    [][(Exists /\ Row.status = "FINALIZED")
        => (observations' = observations /\ itemScores' = itemScores)]_vars

RejectionCodes == {400, 401, 403, 404, 429}

\* C8 A rejected transition request (rate limited, unauthenticated, unknown
\* action, observation not found, not authorized, wrong status, no rated item)
\* changes neither the observation nor its item scores and appends no audit row.
C8_RejectedChangesNothing ==
    [][(last'.op = "status" /\ last'.code \in RejectionCodes)
        => (TablesUnchanged /\ auditAppended' = <<>>)]_vars

C8_Witness ==
    /\ Exists /\ Row.status = "SUBMITTED"
    /\ last.op = "status" /\ last.code = 429
    /\ store["unknown"].count = StatusRateLimit

\* C9 A transition, edit or delete answered with success appended exactly one
\* audit row, for the observation and the acting user; the row of a transition
\* names the action and holds the status before it and the status after it.
C9_OneAuditRow ==
    [][(last'.op \in {"status", "edit", "delete"} /\ Succeeded(last'))
        => /\ Len(auditAppended') = 1
           /\ auditAppended'[1].objectType = "Observation"
           /\ auditAppended'[1].objectId = ObsId
           /\ auditAppended'[1].userId = last'.session
           /\ last'.op = "status"
                => /\ auditAppended'[1].action = last'.action
                   /\ auditAppended'[1].diff.previousStatus = Row.status
                   /\ auditAppended'[1].diff.newStatus = Row'.status
                   /\ Row'.status # Row.status
           /\ last'.op = "edit" => auditAppended'[1].action = "UPDATE"
           /\ last'.op = "delete"
                => (auditAppended'[1].action = "DELETE" /\ ~Exists')]_vars

C9_Witness ==
    /\ last.op = "status" /\ last.action = "REVIEW" /\ last.code = 200
    /\ Len(auditAppended) = 1
    /\ auditAppended[1].diff.previousStatus = "SUBMITTED"
    /\ auditAppended[1].diff.newStatus = "REVIEWED"

\* C10 A request whose audit write throws is still answered with success (and
\* its primary mutation stays).
C10_AuditFailureSwallowed ==
    [][(last'.op \in {"status", "edit", "delete"} /\ last'.thrown = "auditLog.create")
        => Succeeded(last')]_vars

MutationCalls ==
    {"observation.update", "itemScore.deleteMany", "itemScore.createMany",
     "attachment.deleteMany", "observation.delete"}

\* C11 An edit or delete one of whose storage writes throws is aborted with no
\* partial mutation: the observation, its item scores and its attachments are as
\* they were before the request.
C11_StorageErrorAtomic ==
    [][(last'.op \in {"edit", "delete"} /\ last'.thrown \in MutationCalls)
        => (TablesUnchanged /\ attachments' = attachments)]_vars

MayEditOrDelete(observation, session) ==
    /\ session = observation.observerId \/ role(session) = "ADMIN"
    /\ observation.status # "FINALIZED"

\* C12 An edit is answered with success only when its actor is the observer of
\* record or an admin and the status is not FINALIZED; every other edit request
\* leaves the observation's fields and its item scores as they were.
C12_EditAuthorization ==
    [][last'.op = "edit"
        => IF Succeeded(last')
           THEN Exists /\ last'.session \in Users /\ MayEditOrDelete(Row, last'.session)
           ELSE TablesUnchanged]_vars

C12_Witness ==
    /\ Exists /\ Row.observerId = "u1" /\ Row.status = "SUBMITTED"
    /\ Row.totalStudents = 3
    /\ last.op = "edit" /\ last.session = "u3" /\ last.code = 200

\* C13 A delete is answered with success only when its actor is the observer of
\* record or an admin and the status is not FINALIZED, and after it the
\* observation is gone and no item score and no attachment of it remains.
C13_DeleteCascade ==
    [][(last'.op = "delete" /\ Succeeded(last'))
        => /\ Exists /\ last'.session \in Users /\ MayEditOrDelete(Row, last'.session)
           /\ ~Exists'
           /\ itemScores' = <<>>
           /\ \A a \in attachments' : a.observationId # ObsId]_vars

C13_Witness ==
    /\ ~Exists /\ idAllocated /\ itemScores = <<>> /\ attachments = {}
    /\ last.op = "delete" /\ last.session = "u1" /\ last.code = 200
    /\ Len(auditAppended) = 1 /\ auditAppended[1].action = "DELETE"

\* C14 A successful edit leaves the status, the reviewer id, the review
\* timestamp and the finalize timestamp as they were: once the observation
\* exists, only a status request changes its status.
C14_EditKeepsStatus ==
    [][/\ (last'.op = "edit" /\ Succeeded(last'))
            => /\ Exists'
               /\ Row'.status = Row.status
               /\ Row'.reviewerId = Row.reviewerId
               /\ Row'.reviewedAt = Row.reviewedAt
               /\ Row'.finalizedAt = Row.finalizedAt
       /\ (Exists /\ Exists' /\ Row'.status # Row.status) => last'.op = "status"]_vars

C14_Witness ==
    /\ Exists /\ Row.status = "REVIEWED" /\ Row.reviewerId = "u2"
    /\ Row.reviewedAt = "date" /\ Row.totalStudents = 3
    /\ last.op = "edit" /\ last.session = "u1" /\ last.code = 200

\* C15 A successful REVIEW sets the status to REVIEWED and records the acting
\* user, the review timestamp and the comments sent (trimmed; null when none
\* were sent); a successful RETURN_TO_DRAFT, from SUBMITTED or REVIEWED, sets the
\* status to DRAFT and the reviewer id, review timestamp and comments to null.
C15_ReviewAndReturnFields ==
    [][/\ (last'.op = "status" /\ last'.action = "REVIEW" /\ Succeeded(last'))
            => /\ Exists /\ Exists'
               /\ Row'.status = "REVIEWED"
               /\ Row'.reviewerId = last'.session
               /\ Row'.reviewedAt = "date"
               /\ Row'.reviewerComments =
                    (IF last'.reviewerComments = "" THEN NULL ELSE "good")
       /\ (last'.op = "status" /\ last'.action = "RETURN_TO_DRAFT" /\ Succeeded(last'))
            => /\ Exists /\ Exists'
               /\ Row.status \in {"SUBMITTED", "REVIEWED"}
               /\ Row'.status = "DRAFT"
               /\ Row'.reviewerId = NULL
               /\ Row'.reviewedAt = NULL
               /\ Row'.reviewerComments = NULL]_vars

C15_Witness ==
    /\ Exists /\ Row.status = "REVIEWED" /\ Row.reviewerId = "u3"
    /\ Row.reviewedAt = "date" /\ Row.reviewerComments = "good"
    /\ last.op = "status" /\ last.action = "REVIEW" /\ last.session = "u3"
    /\ last.reviewerComments = " good " /\ last.code = 200

StateErrorOf(action) ==
    CASE action = "SUBMIT" -> "Only draft observations can be submitted"
      [] action = "REVIEW" -> "Only submitted observations can be reviewed"
      [] action = "FINALIZE" -> "Only reviewed observations can be finalized"
      [] action = "RETURN_TO_DRAFT" ->
            "Only submitted or reviewed observations can be returned to draft"

\* C16 Safe re-invocation: the status request that has just succeeded, sent
\* again by the same user, fails its state-precondition check, changes nothing
\* and appends no audit row.
C16_SafeReinvocation ==
    [][(/\ last.op = "status" /\ Succeeded(last)
        /\ last'.op = "status"
        /\ last'.action = last.action /\ last'.session = last.session)
        => /\ last'.code = 400
           /\ last'.error = StateErrorOf(last.action)
           /\ TablesUnchanged
           /\ auditAppended' = <<>>]_vars

C16_Witness ==
    /\ Exists /\ Row.status = "FINALIZED" /\ Row.reviewerId = "u2"
    /\ last.op = "status" /\ last.action = "FINALIZE" /\ last.session = "u2"
    /\ last.code = 400 /\ last.error = "Only reviewed observations can be finalized"

C18_RatingWithinScale ==
    \A i \in 1..Len(itemScores) :
        LET item == RubricItems[itemScores[i].rubricItemId]
        IN  \/ itemScores[i].rating = NoNumber
            \/ TheOne(itemScores[i].rating) \in item.scaleMin..item.scaleMax

FiveRatings == {"Excellent", "Good", "Average", "Weak", "Very Poor"}

\* C19 With the default thresholds an overall percentage of 90.00 is rated
\* Excellent, 89.99 Good, 50.00 Weak and 49.99 Very Poor, and every percentage
\* from 0 to 100 in steps of 0.01 gets one of the five ratings.
C19_ThresholdBoundaries ==
    (scoring.done /\ scoring.fn \in {"thresholds.find", "calculateOverallRating"})
        => LET out == scoring.result[1]
           IN  /\ out.rating \in FiveRatings
               /\ out.percentage = 9000 => out.rating = "Excellent"
               /\ out.percentage = 8999 => out.rating = "Good"
               /\ out.percentage = 5000 => out.rating = "Weak"
               /\ out.percentage = 4999 => out.rating = "Very Poor"

\* The items a domain's total and maximum are to count: rated, and not rated 0.
Counted(ratings) == {i \in 1..Len(ratings) : ratings[i] \notin {NoNumber, {0}}}

RECURSIVE SumOver(_, _)
SumOver(f, S) ==
    IF S = {} THEN 0
    ELSE LET i == CHOOSE x \in S : TRUE IN f[i] + SumOver(f, S \ {i})

\* C20 Zero-rating exclusion, in the scoring engine and in the score report of
\* the export route: a domain's total is the sum of the ratings of its items
\* rated above 0 and its maximum the sum of the maxScore of those items; an item
\* rated 0, null or not at all adds to neither.
C20_ZeroRatingExclusion ==
    (scoring.done /\ scoring.fn \in {"calculateDomainScores", "export.calculateDomainScores"})
        => LET out == scoring.result[1]
               counted == Counted(scoring.ratings)
           IN  /\ out.total = SumOver([i \in counted |-> TheOne(scoring.ratings[i])], counted)
               /\ out.maxPossible = SumOver(scoring.maxScores, counted)

\* C21 calculateDomainScores gives every domain the sum of its included (rated,
\* non-zero) ratings as total and 100 * total / maxPossible, to two decimals, as
\* percentage, maxPossible being the sum of the maxScore of the included items,
\* also when the items differ in maxScore; the percentage is 0 when no item is
\* included or the domain has no items.
C21_DomainScoreArithmetic ==
    (scoring.done /\ scoring.fn = "calculateDomainScores")
        => LET out == scoring.result[1]
               counted == Counted(scoring.ratings)
               maxPossible == SumOver(scoring.maxScores, counted)
           IN  /\ out.total = SumOver([i \in counted |-> TheOne(scoring.ratings[i])], counted)
               /\ out.percentage = IF maxPossible > 0
                                   THEN roundedHundredths(out.total, maxPossible)
                                   ELSE 0

\* C22 For a non-empty list of domain scores calculateOverallRating returns the
\* percentage 100 * grandTotal / totalMaxScore, to two decimals, grandTotal being
\* the sum of the domain totals and totalMaxScore 4 times the number of items
\* rated other than 0 over all domains, and 0 when totalMaxScore is 0; for an
\* empty list it returns "No Data", "gray" and 0.
C22_OverallPercentage ==
    (scoring.done /\ scoring.fn = "calculateOverallRating")
        => LET out == scoring.result[1]
               counted == Counted(scoring.ratings)
               grandTotal == SumOver([i \in counted |-> TheOne(scoring.ratings[i])], counted)
               totalMaxScore == 4 * Cardinality(counted)
           IN  IF scoring.domains = 0
               THEN out = [rating |-> "No Data", color |-> "gray", percentage |-> 0]
               ELSE out.percentage = IF totalMaxScore > 0
                                     THEN roundedHundredths(grandTotal, totalMaxScore)
                                     ELSE 0

\* Two domains whose items are rated, some of them 0, have got their rating.
C22_Witness ==
    /\ scoring.done
    /\ scoring.fn = "calculateOverallRating"
    /\ scoring.domains = 2
    /\ \E i, j \in 1..Len(scoring.ratings) : scoring.ratings[i] = {0} /\ scoring.ratings[j] = {3}
    /\ scoring.result[1].percentage > 0

\* A completed validateObservationData call on these counts and no ratings.
ValidatedUnrated(totalStudents, presentStudents) ==
    /\ scoring.done
    /\ scoring.fn = "validateObservationData"
    /\ scoring.data.totalStudents = totalStudents
    /\ scoring.data.presentStudents = presentStudents
    /\ \A i \in 1..Len(scoring.data.itemScores) : scoring.data.itemScores[i].rating = UNDEFINED

\* C23 Validation completeness as stated: totalStudents = -1, presentStudents = -1
\* and no ratings give exactly 4 errors and isValid = false.
C23_FourErrors ==
    ValidatedUnrated(0 - 1, 0 - 1)
        => /\ Len(scoring.result[1].errors) = 4
           /\ scoring.result[1].isValid = FALSE

\* C23 (amended) totalStudents = -1, presentStudents = -1 and no ratings give
\* exactly the 3 errors of the rules that input violates (total not positive,
\* present negative, nothing scored; -1 > -1 is false) and isValid = false;
\* no ratings with presentStudents negative and greater than totalStudents,
\* such as -1 and -2, give exactly 4 errors: all four rules fire.
C23_AllViolatedRulesFire ==
    /\ ValidatedUnrated(0 - 1, 0 - 1)
        => /\ scoring.result[1].errors
                = <<TotalStudentsError, PresentNegativeError, NoScoresError>>
           /\ scoring.result[1].isValid = FALSE
    /\ ValidatedUnrated(0 - 2, 0 - 1)
        => /\ scoring.result[1].errors
                = <<TotalStudentsError, PresentNegativeError, PresentExceedsError,
                    NoScoresError>>
           /\ scoring.result[1].isValid = FALSE

C23_Witness == ValidatedUnrated(0 - 1, 0 - 1) /\ scoring.data.itemScores = <<>>

\* The messages of the rules the data violates; an item counts as scored when
\* its rating is a number (neither missing nor null) other than 0.
ViolatedRules(data) ==
    {m \in {TotalStudentsError, PresentNegativeError, PresentExceedsError, NoScoresError} :
        \/ m = TotalStudentsError /\ data.totalStudents <= 0
        \/ m = PresentNegativeError /\ data.presentStudents < 0
        \/ m = PresentExceedsError /\ data.presentStudents > data.totalStudents
        \/ m = NoScoresError
            /\ ~\E i \in 1..Len(data.itemScores) :
                    /\ data.itemScores[i].rating.type = "number"
                    /\ data.itemScores[i].rating.value # 0}

\* C24 validateObservationData evaluates all four rules: errors holds one
\* message for each violated rule and no other message, and isValid is true
\* exactly when errors is empty.
C24_ExactErrorSet ==
    (scoring.done /\ scoring.fn = "validateObservationData")
        => LET out == scoring.result[1]
           IN  /\ {out.errors[k] : k \in 1..Len(out.errors)} = ViolatedRules(scoring.data)
               /\ Len(out.errors) = Cardinality(ViolatedRules(scoring.data))
               /\ out.isValid = (out.errors = <<>>)

\* C25 After any sequence of create, edit and transition requests an
\* observation has a reviewer id exactly when its status is REVIEWED or
\* FINALIZED, and a finalize timestamp exactly when its status is FINALIZED.
C25_ReviewFieldsMatchStatus ==
    \A o \in observations :
        /\ (o.reviewerId # NULL) <=> (o.status \in {"REVIEWED", "FINALIZED"})
        /\ (o.finalizedAt # NULL) <=> (o.status = "FINALIZED")

\* A reviewed observation has just been finalized.
C25_Witness ==
    /\ Exists
    /\ last.op = "status" /\ last.action = "FINALIZE" /\ Succeeded(last)
    /\ Row.status = "FINALIZED" /\ Row.reviewerId # NULL /\ Row.finalizedAt # NULL

\* C26 After any sequence of create, edit and transition requests an
\* observation whose status is SUBMITTED, REVIEWED or FINALIZED has at least
\* one item score with a rating; an edit accepted after submission does not
\* leave it without a rated item.
C26_SubmittedHasRatedItem ==
    \A o \in observations :
        o.status \in {"SUBMITTED", "REVIEWED", "FINALIZED"}
            => \E i \in 1..Len(itemScores) : itemScores[i].rating # NoNumber

\* The fields of an observation that a transition is to leave alone.
ContextOf(o) ==
    [id |-> o.id, observerId |-> o.observerId,
     totalStudents |-> o.totalStudents, presentStudents |-> o.presentStudents]

C28_PresentWithinTotal ==
    \A o \in observations : o.presentStudents <= o.totalStudents

\* C29 rateLimit is a fixed-window limiter: for one identifier called with one
\* maxRequests >= 1, at most maxRequests of the calls of a window (from the call
\* that opens it up to and including its resetTime) succeed; every further call
\* of the window returns success = false and remaining = 0 and leaves the
\* stored count as it was; and the first call later than resetTime opens a new
\* window with count 1, ending windowMs later, and succeeds.
C29_FixedWindow ==
    [][limited'.called
        => /\ limited'.succeeded <= limited'.maxRequests
           /\ (~limited'.opened /\ limited'.prior >= limited'.maxRequests)
                => /\ ~limited'.success
                   /\ limited'.remaining = 0
                   /\ store'[limited'.identifier].count = store[limited'.identifier].count
           /\ limited'.opened
                => /\ limited'.success
                   /\ store'[limited'.identifier].count = 1
                   /\ limited'.resetTime = limited'.left
           /\ store'[limited'.identifier].resetTime = limited'.left]_vars

\* A window is full, a call at its very end has been refused.
C29_Witness ==
    /\ limited.called /\ ~limited.success
    /\ limited.left = 0
    /\ limited.prior = limited.maxRequests
    /\ limited.maxRequests > 1

\* C30 The counter of a client identifier is shared by all endpoints: a call
\* with limit m succeeds within a window only if fewer than m calls of the
\* identifier, whatever their limits, have succeeded in that window; after 10
\* successful list reads (limit 50) a create request (limit 10) is refused.
C30_SharedCounter ==
    [][limited'.called
        => /\ limited'.success => limited'.prior < limited'.maxRequests
           /\ ( /\ ~limited'.opened
                /\ limited'.limits = {ListRateLimit}
                /\ limited'.prior = 10
                /\ limited'.maxRequests = CreateRateLimit )
                => ~limited'.success]_vars

\* Ten list reads have succeeded in the window and a create has been refused.
C30_Witness ==
    /\ limited.called /\ ~limited.success
    /\ limited.maxRequests = CreateRateLimit
    /\ limited.limits = {ListRateLimit}
    /\ limited.prior = 10

====
